---- MODULE Spec2Model ----
(***************************************************************************)
(* Model of core/views.py of brasil.io: the dataset table request          *)
(* pipeline (dataset_detail) and the streaming CSV encoder                 *)
(* (queryset_to_csv).                                                      *)
(*                                                                         *)
(* Text values that the code inspects character by character (query        *)
(* parameter values, the User-Agent header, cell values) are sequences of  *)
(* one-character strings, so that strip(), int(), lower() and the          *)
(* substring test are computed and not assumed.  Names that the code only  *)
(* compares for equality (slugs, table names, field names, templates) are  *)
(* plain strings.                                                          *)
(***************************************************************************)
EXTENDS Integers, Sequences, FiniteSets, TLC

VARIABLES
    settings,    \* django.conf.settings: the values views.py reads
    phase,       \* "idle" | "responded" | "streaming" | "drained"
    request,     \* the request being served
    response,    \* what dataset_detail returned
    calls,       \* collaborators dataset_detail called, in call order
    audit_log,   \* the status codes passed to log_blocked_request
    paginator,   \* the arguments Paginator / get_page were given
    row_source,  \* what composed_query returned to dataset_detail (all_data)
    csv_data,    \* queryset_to_csv: the row source (data)
    csv_fields,  \* queryset_to_csv: the field list (fields)
    csv_pos,     \* queryset_to_csv: rows already taken from data.iterator()
    csv_pc,      \* queryset_to_csv: where the generator is suspended
    header,      \* queryset_to_csv: the local `header`
    lines        \* the lines queryset_to_csv has yielded so far

vars == <<settings, phase, request, response, calls, audit_log, paginator,
          row_source, csv_data, csv_fields, csv_pos, csv_pc, header, lines>>

(***************************************************************************)
(* Bounds                                                                  *)
(***************************************************************************)
MaxCeiling == 2      \* settings.CSV_EXPORT_MAX_ROWS ranges over 0..MaxCeiling
MaxCsvRows == 2      \* longest row source handed to queryset_to_csv alone
MaxFields == 3       \* longest field list handed to queryset_to_csv alone

ItemsCeiling == 1000 \* the literal of min(items_per_page, 1000)

(***************************************************************************)
(* Text helpers (Python str methods used by the views)                     *)
(***************************************************************************)
Str1 == <<"1">>
Csv == <<"c", "s", "v">>

Whitespace == {" ", "\t"}

Digits == {"0", "1", "2", "3", "4", "5", "6", "7", "8", "9"}

DigitValue(c) ==
    CASE c = "0" -> 0 [] c = "1" -> 1 [] c = "2" -> 2 [] c = "3" -> 3
      [] c = "4" -> 4 [] c = "5" -> 5 [] c = "6" -> 6 [] c = "7" -> 7
      [] c = "8" -> 8 [] c = "9" -> 9

DigitChar(d) ==
    CASE d = 0 -> "0" [] d = 1 -> "1" [] d = 2 -> "2" [] d = 3 -> "3"
      [] d = 4 -> "4" [] d = 5 -> "5" [] d = 6 -> "6" [] d = 7 -> "7"
      [] d = 8 -> "8" [] d = 9 -> "9"

\* str.lower() on one character
LowerChar(c) ==
    CASE c = "B" -> "b" [] c = "O" -> "o" [] c = "T" -> "t"
      [] c = "C" -> "c" [] c = "U" -> "u" [] c = "R" -> "r"
      [] c = "L" -> "l" [] c = "M" -> "m" [] c = "Z" -> "z"
      [] OTHER -> c

lower(s) == [i \in 1..Len(s) |-> LowerChar(s[i])]

\* Python's `sub in s` for strings
Contains(sub, s) ==
    \E i \in 0..(Len(s) - Len(sub)) :
        \A j \in 1..Len(sub) : s[i + j] = sub[j]

\* str.strip()
strip(s) ==
    LET keep == {i \in 1..Len(s) : s[i] \notin Whitespace}
    IN  IF keep = {} THEN <<>>
        ELSE LET lo == CHOOSE i \in keep : \A j \in keep : i <= j
                 hi == CHOOSE i \in keep : \A j \in keep : j <= i
             IN  SubSeq(s, lo, hi)

\* str(n) for a natural number
RECURSIVE IntToStr(_)
IntToStr(n) ==
    IF n < 10 THEN <<DigitChar(n)>>
    ELSE Append(IntToStr(n \div 10), DigitChar(n % 10))

\* int(s): the literal grammar of Python's int() in base 10: surrounding
\* whitespace, an optional sign, then digits with single underscores allowed
\* between digits.
Unsigned(s) ==
    LET t == strip(s)
    IN  IF t # <<>> /\ Head(t) \in {"+", "-"} THEN Tail(t) ELSE t

IsIntLiteral(s) ==
    LET u == Unsigned(s)
    IN  /\ u # <<>>
        /\ \A i \in 1..Len(u) : u[i] \in Digits \cup {"_"}
        /\ u[1] # "_"
        /\ u[Len(u)] # "_"
        /\ \A i \in 1..(Len(u) - 1) : ~(u[i] = "_" /\ u[i + 1] = "_")

RECURSIVE DigitsValue(_, _)
DigitsValue(u, acc) ==
    IF u = <<>> THEN acc
    ELSE IF Head(u) = "_" THEN DigitsValue(Tail(u), acc)
    ELSE DigitsValue(Tail(u), 10 * acc + DigitValue(Head(u)))

IntValue(s) ==
    LET t == strip(s)
        m == DigitsValue(Unsigned(s), 0)
    IN  IF Head(t) = "-" THEN 0 - m ELSE m

Min(a, b) == IF a <= b THEN a ELSE b

(***************************************************************************)
(* Metadata store: Dataset, Table, Field (core.models)                     *)
(***************************************************************************)
Field(n, show, obf) == [name |-> n, show_on_frontend |-> show, obfuscate |-> obf]

CasoFields ==
    << Field("city", TRUE, FALSE),
       Field("document", TRUE, TRUE),
       Field("internal_id", FALSE, FALSE),
       Field("search_data", TRUE, FALSE) >>

EmpresaFields ==
    << Field("document", TRUE, TRUE), Field("search_data", FALSE, FALSE),
       Field("city", TRUE, FALSE) >>

Datasets ==
    [slug \in {"covid19", "socios"} |->
        IF slug = "covid19"
        THEN [default_table |-> "caso",
              tables |-> [t \in {"caso", "secret"} |->
                            [hidden |-> (t = "secret"), fields |-> CasoFields]]]
        ELSE [default_table |-> "empresa",
              tables |-> [t \in {"empresa"} |->
                            [hidden |-> FALSE, fields |-> EmpresaFields]]]]

\* One row of a table's backing store: an attribute per field name.
Row(city, document) ==
    [f \in {"city", "document", "internal_id", "search_data"} |->
        CASE f = "city" -> city
          [] f = "document" -> document
          [] f = "internal_id" -> <<"7">>
          [] f = "search_data" -> <<"s", "p">>]

RowA == Row(<<"S", "P">>, <<"1", "2", "3", "4", "5", "6">>)
RowB == Row(<<"R", "J">>, <<"9", "8", "7">>)

\* Dataset.get_table(tablename, allow_hidden): a table of that name which the
\* caller may see; Table.DoesNotExist otherwise.
get_table(dataset, tablename, allow_hidden) ==
    IF /\ tablename \in DOMAIN dataset.tables
       /\ (allow_hidden \/ ~dataset.tables[tablename].hidden)
    THEN [found |-> TRUE, name |-> tablename]
    ELSE [found |-> FALSE, name |-> ""]

\* reverse("core:dataset-table-detail", kwargs={slug, tablename})
reverse(slug, tablename) == <<"dataset", slug, tablename>>

\* core.templatetags.utils.obfuscate: masks the head and the tail of a value.
obfuscate(value) ==
    <<"*", "*", "*">> \o SubSeq(value, 4, Len(value)) \o <<"*", "*">>

(***************************************************************************)
(* QueryDict: a function from the keys present to their list of values     *)
(***************************************************************************)
EmptyDict == [k \in {} |-> <<>>]

\* QueryDict.pop(key, default): the list of values of key
Pop(qs, key, default) == IF key \in DOMAIN qs THEN qs[key] ELSE default

Without(qs, keys) == [k \in (DOMAIN qs) \ keys |-> qs[k]]

\* QueryDict.items(): each key with its last value
LastValue(qs, k) == qs[k][Len(qs[k])]

\* TableModel.objects.parse_querystring(querystring): the filter expression
\* (the non-empty remaining parameters), the search expression and the
\* ordering.
parse_querystring(qs) ==
    LET rest == Without(qs, {"order-by", "search"})
        keys == {k \in DOMAIN rest : LastValue(rest, k) # <<>>}
    IN  [query |-> [k \in keys |-> LastValue(rest, k)],
         search_query |-> Head(Pop(qs, "search", << <<>> >>)),
         order_by |-> Head(Pop(qs, "order-by", << <<>> >>))]

(***************************************************************************)
(* queryset_to_csv                                                         *)
(***************************************************************************)
\* row_data is a dict: an insertion-ordered list of (name, value) entries.
DictSet(d, k, v) ==
    IF \E i \in 1..Len(d) : d[i].name = k
    THEN [i \in 1..Len(d) |-> IF d[i].name = k THEN [name |-> k, value |-> v] ELSE d[i]]
    ELSE Append(d, [name |-> k, value |-> v])

DictKeys(d) == [i \in 1..Len(d) |-> d[i].name]

DictGet(d, k) == d[CHOOSE i \in 1..Len(d) : d[i].name = k].value

\* `if not field.show_on_frontend or field.name == "search_data": continue`
SkipField(field) == ~field.show_on_frontend \/ field.name = "search_data"

\* value = getattr(row, field.name); if field.obfuscate: value = obfuscate(value)
CellValueRaw(row, field) == row[field.name]

CellValue(row, field) ==
    IF field.obfuscate THEN obfuscate(row[field.name]) ELSE row[field.name]

\* the inner `for field in fields` loop, building row_data
RECURSIVE BuildRowData(_, _, _)
BuildRowData(row, fields, row_data) ==
    IF fields = <<>> THEN row_data
    ELSE LET field == Head(fields)
         IN  IF SkipField(field)
             THEN BuildRowData(row, Tail(fields), row_data)
             ELSE BuildRowData(row, Tail(fields),
                               DictSet(row_data, field.name, CellValue(row, field)))

RowData(row, fields) == BuildRowData(row, fields, <<>>)

\* `if header is None`
HeaderMissingFalsy(h) == h.is_none \/ h.names = <<>>

HeaderMissing(h) == h.is_none

\* [row_data[field] for field in header]
RowCells(row_data, names) == [i \in 1..Len(names) |-> DictGet(row_data, names[i])]

NoHeader == [is_none |-> TRUE, names |-> <<>>]

Line(kind, cells) == [kind |-> kind, cells |-> cells]

\* The generator is resumed at the top of `for row in data.iterator()`: it
\* takes the next row and runs to its next yield, or finishes.
CsvNextRow ==
    /\ csv_pc = "loop"
    /\ IF csv_pos < Len(csv_data)
       THEN LET row_data == RowData(csv_data[csv_pos + 1], csv_fields)
            IN  /\ csv_pos' = csv_pos + 1
                /\ IF HeaderMissing(header)
                   THEN /\ header' = [is_none |-> FALSE, names |-> DictKeys(row_data)]
                        /\ lines' = Append(lines, Line("header", DictKeys(row_data)))
                        /\ csv_pc' = "header_yielded"
                   ELSE /\ lines' = Append(lines, Line("row", RowCells(row_data, header.names)))
                        /\ UNCHANGED <<header, csv_pc>>
       ELSE /\ csv_pc' = "done"
            /\ UNCHANGED <<csv_pos, header, lines>>
    /\ UNCHANGED <<settings, phase, request, response, calls, audit_log,
                   paginator, row_source, csv_data, csv_fields>>

\* The generator is resumed after `yield header`: it yields the same row.
CsvYieldRow ==
    /\ csv_pc = "header_yielded"
    /\ LET row_data == RowData(csv_data[csv_pos], csv_fields)
       IN  lines' = Append(lines, Line("row", RowCells(row_data, header.names)))
    /\ csv_pc' = "loop"
    /\ UNCHANGED <<settings, phase, request, response, calls, audit_log,
                   paginator, row_source, csv_data, csv_fields, csv_pos, header>>

(***************************************************************************)
(* dataset_detail                                                          *)
(***************************************************************************)
NoResponse ==
    [kind |-> "none", template |-> "", status |-> 0, message |-> "",
     snippet |-> "", location |-> <<>>, query_dict |-> EmptyDict]

\* render(request, template, context, status=status)
Render(template, status, message) ==
    [NoResponse EXCEPT !.kind = "render", !.template = template,
                       !.status = status, !.message = message]

NoPaginator == [called |-> FALSE, per_page |-> 0, number |-> 0, count |-> 0]

Returned(resp, cs, log, pag, data, fields) ==
    [response |-> resp, calls |-> cs, audit_log |-> log, paginator |-> pag,
     data |-> data, fields |-> fields]

\* a return that leaves no paginator and no generator behind
Replied(resp, cs, log) == Returned(resp, cs, log, NoPaginator, <<>>, <<>>)

\* page_number = querystring.pop("page", ["1"])[0].strip() or "1"
page_number(GET) ==
    LET v == strip(Head(Pop(GET, "page", <<Str1>>)))
    IN  IF v = <<>> THEN Str1 ELSE v

\* items_per_page = querystring.pop("items", [str(ROWS_PER_PAGE)])[0].strip()
\*                  or str(ROWS_PER_PAGE)
items_per_page_text(cfg, GET) ==
    LET default == IntToStr(cfg.ROWS_PER_PAGE)
        v == strip(Head(Pop(GET, "items", <<default>>)))
    IN  IF v = <<>> THEN default ELSE v

\* download_csv = querystring.pop("format", [""]) == ["csv"]
download_csv(GET) == Pop(GET, "format", << <<>> >>) = <<Csv>>

\* items_per_page = min(items_per_page, 1000)
ClampItemsMissing(n) == n

ClampItems(n) == Min(n, ItemsCeiling)

\* user_agent = request.headers.get("User-Agent", "")
UserAgent(headers) ==
    IF "User-Agent" \in DOMAIN headers THEN headers["User-Agent"] ELSE <<>>

\* block_agent = any(True for agent in BLOCKED_AGENTS
\*                   if agent.lower() in user_agent.lower())
block_agent_case_sensitive(cfg, user_agent) ==
    \E i \in 1..Len(cfg.BLOCKED_AGENTS) :
        Contains(cfg.BLOCKED_AGENTS[i], user_agent)

block_agent(cfg, user_agent) ==
    \E i \in 1..Len(cfg.BLOCKED_AGENTS) :
        Contains(lower(cfg.BLOCKED_AGENTS[i]), lower(user_agent))

\* not any([query, search_query]) or not user_agent or block_agent
ExportRefusedIgnoringFilters(query, search_query, user_agent, blocked) ==
    user_agent = <<>> \/ blocked

ExportRefused(query, search_query, user_agent, blocked) ==
    \/ ~(DOMAIN query # {} \/ search_query # <<>>)
    \/ user_agent = <<>>
    \/ blocked

\* all_data.count() > settings.CSV_EXPORT_MAX_ROWS
MaxRowsExceededAtCeiling(cfg, count) == count >= cfg.CSV_EXPORT_MAX_ROWS

MaxRowsExceeded(cfg, count) == count > cfg.CSV_EXPORT_MAX_ROWS

\* lines 178-180: drop the keys whose value is empty
NonEmptyParams(querystring) ==
    [k \in {k \in DOMAIN querystring : LastValue(querystring, k) # <<>>} |-> querystring[k]]

\* lines 147-173: the export branch
ExportCsv(cfg, req, table, parsed, all_data, cs) ==
    LET user_agent == UserAgent(req.headers)
        blocked == block_agent(cfg, user_agent)
    IN  IF ExportRefused(parsed.query, parsed.search_query, user_agent, blocked)
        THEN Replied([Render("4xx.html", 400, "")
                        EXCEPT !.snippet = "core/400-csv-without-filters.html"],
                     cs, <<>>)
        ELSE IF MaxRowsExceeded(cfg, Len(all_data))
        THEN Replied(Render("4xx.html", 400, "Max rows exceeded."),
                     Append(cs, "count"), <<>>)
        ELSE Returned([NoResponse EXCEPT !.kind = "stream", !.status = 200],
                      cs \o <<"count", "queryset_to_csv">>, <<>>, NoPaginator,
                      all_data, table.fields)

\* lines 175-195: the paginated page.  What Paginator.get_page makes of the
\* page number and the page size is Django's policy; the model records the
\* arguments it is given.  The latest version and files_url are read-only
\* context values and are left out.
RenderPage(req, querystring, page, items_per_page, all_data, cs) ==
    Returned([Render("core/dataset-detail.html", 200, "")
                EXCEPT !.query_dict = NonEmptyParams(querystring)],
             cs \o <<"Paginator", "get_page", "count">>, <<>>,
             [called |-> TRUE, per_page |-> items_per_page, number |-> page,
              count |-> Len(all_data)],
             <<>>, <<>>)

ParseErrorItemsFirst(page_text, items_text) ==
    IF ~IsIntLiteral(items_text) THEN "Invalid items per page."
    ELSE IF ~IsIntLiteral(page_text) THEN "Invalid page number."
    ELSE ""

\* lines 128-137: the two int() conversions, page first; "" when both parse
ParseError(page_text, items_text) ==
    IF ~IsIntLiteral(page_text) THEN "Invalid page number."
    ELSE IF ~IsIntLiteral(items_text) THEN "Invalid items per page."
    ELSE ""

\* lines 124-145, then the response strategy
TableView(cfg, req, table, all_data, cs0) ==
    LET cs == Append(cs0, "GET.copy")
        page_text == page_number(req.GET)
        items_text == items_per_page_text(cfg, req.GET)
        csv == download_csv(req.GET)
        querystring == Without(req.GET, {"page", "items", "format"})
        error == ParseError(page_text, items_text)
    IN  IF error # ""
        THEN Replied(Render("404.html", 404, error), cs, <<>>)
        ELSE LET page == IntValue(page_text)
                 items_per_page == ClampItems(IntValue(items_text))
                 parsed == parse_querystring(querystring)
                 cs2 == cs \o <<"get_model", "parse_querystring", "composed_query">>
             IN  IF csv
                 THEN ExportCsv(cfg, req, table, parsed, all_data, cs2)
                 ELSE RenderPage(req, querystring, page, items_per_page, all_data, cs2)

\* allow_hidden = request.user.is_superuser
AllowHiddenForAll(req) == TRUE

AllowHidden(req) == req.is_superuser

\* lines 115-121: log_blocked_request(request, 404) only if the hidden table
\* exists; the statuses logged
BlockedLogAlways(hidden_table) == <<404>>

BlockedLog(hidden_table) == IF hidden_table.found THEN <<404>> ELSE <<>>

\* lines 110-122: the table the caller may see, or the 404 page
ResolveTable(cfg, req, dataset, all_data, cs) ==
    LET allow_hidden == AllowHidden(req)
        table == get_table(dataset, req.tablename, allow_hidden)
    IN  IF table.found
        THEN TableView(cfg, req, dataset.tables[table.name], all_data,
                       Append(cs, "get_table"))
        ELSE LET hidden_table == get_table(dataset, req.tablename, TRUE)
                 logged == BlockedLog(hidden_table)
             IN  Replied(Render("404.html", 404, "Table does not exist"),
                         cs \o <<"get_table", "get_table">>
                            \o [i \in 1..Len(logged) |-> "log_blocked_request"],
                         logged)

\* lines 106-108: no table segment
RedirectToRequestedTable(req, dataset, cs) ==
    Replied([NoResponse EXCEPT !.kind = "redirect", !.status = 302,
                               !.location = reverse(req.slug, req.tablename)],
            cs, <<>>)

RedirectToDefault(req, dataset, cs) ==
    Replied([NoResponse EXCEPT !.kind = "redirect", !.status = 302,
                               !.location = reverse(req.slug, dataset.default_table)],
            Append(cs, "get_default_table"), <<>>)

\* dataset_detail(request, slug, tablename=""): what one call returns and which
\* collaborators it calls; all_data is what composed_query yields if reached.
DatasetDetail(cfg, req, all_data) ==
    LET cs == <<"Dataset.objects.get">>
    IN  IF req.slug \notin DOMAIN Datasets
        THEN Replied(Render("404.html", 404, "Dataset does not exist"), cs, <<>>)
        ELSE IF req.tablename = ""
        THEN RedirectToDefault(req, Datasets[req.slug], cs)
        ELSE ResolveTable(cfg, req, Datasets[req.slug], all_data, cs)

(***************************************************************************)
(* Requests and configuration the model serves                             *)
(***************************************************************************)
Slugs == {"covid19", "socios", "nope"}
TableNames == {"", "caso", "secret", "missing"}

\* the (slug, table, caller) triples that dataset_detail resolves to a table
Resolvable ==
    {<<"covid19", "caso", FALSE>>, <<"covid19", "secret", TRUE>>,
     <<"socios", "empresa", FALSE>>}

\* the value lists of one query parameter; <<>> stands for "key absent"
PageLists == { <<>>, << <<"a", "b">> >>, << <<" ">> >>, << <<" ", "2">> >> }
ItemsLists ==
    { <<>>, << <<>> >>, << <<"1", "0">>, <<"x">> >>, << <<"1", "x">> >>,
      << <<"1", "0", "0", "1">> >>, << <<"-", "3">> >> }
FormatLists == { <<>>, <<Csv>>, <<Csv, Csv>> }
CityLists == { <<>>, << <<>> >>, << <<"S", "P">> >> }
SearchLists == { <<>>, << <<"r", "j">> >> }

UserAgents ==
    { <<>>, << <<>> >>, << <<"M", "o", "z">> >>, << <<"x", "B", "o", "T">> >> }

QueryDict(p, i, f, c, s) ==
    LET lists == [k \in {"page", "items", "format", "city", "search"} |->
                    CASE k = "page" -> p [] k = "items" -> i [] k = "format" -> f
                      [] k = "city" -> c [] k = "search" -> s]
    IN  [k \in {k \in DOMAIN lists : lists[k] # <<>>} |-> lists[k]]

Headers(ua) == IF ua = <<>> THEN EmptyDict ELSE [h \in {"User-Agent"} |-> ua[1]]

Request(sl, tn, su, p, i, f, c, s, ua) ==
    [slug |-> sl, tablename |-> tn, is_superuser |-> su,
     GET |-> QueryDict(p, i, f, c, s), headers |-> Headers(ua)]

\* every route, with a few query strings
RoutingRequests ==
    { Request(sl, tn, su, p, <<>>, f, c, <<>>, << <<"M", "o", "z">> >>) :
        sl \in Slugs, tn \in TableNames, su \in BOOLEAN,
        p \in {<<>>, << <<"a", "b">> >>}, f \in {<<>>, <<Csv>>},
        c \in {<<>>, << <<"S", "P">> >>} }

\* every query string and user agent, on the routes that resolve to a table
ViewRequests ==
    { Request(r[1], r[2], r[3], p, i, f, c, s, ua) :
        r \in Resolvable, p \in PageLists, i \in ItemsLists, f \in FormatLists,
        c \in CityLists, s \in SearchLists, ua \in UserAgents }

Requests == RoutingRequests \cup ViewRequests

NoRequest ==
    [slug |-> "", tablename |-> "", is_superuser |-> FALSE,
     GET |-> EmptyDict, headers |-> EmptyDict]

BlockedAgents == << <<"c", "u", "r", "l">>, <<"b", "O", "t">> >>

Settings ==
    [ROWS_PER_PAGE : {50, 2000},
     CSV_EXPORT_MAX_ROWS : 0..MaxCeiling,
     BLOCKED_AGENTS : {BlockedAgents}]

Rows == {RowA, RowB}

SeqsUpTo(S, n) == UNION {[1..k -> S] : k \in 0..n}

\* the row sources composed_query may return to dataset_detail
RowSources == {[i \in 1..k |-> IF i % 2 = 1 THEN RowA ELSE RowB] : k \in 0..(MaxCeiling + 1)}

(***************************************************************************)
(* The request pipeline                                                    *)
(***************************************************************************)
Idle ==
    /\ phase = "idle"
    /\ request = NoRequest
    /\ response = NoResponse
    /\ calls = <<>>
    /\ audit_log = <<>>
    /\ paginator = NoPaginator
    /\ row_source = <<>>
    /\ csv_data = <<>>
    /\ csv_fields = <<>>
    /\ csv_pos = 0
    /\ csv_pc = "none"
    /\ header = NoHeader
    /\ lines = <<>>

Init == settings \in Settings /\ Idle

\* One call of the view: the whole of dataset_detail, up to its return.
dataset_detail ==
    /\ phase = "idle"
    /\ \E req \in Requests, all_data \in RowSources :
        \E r \in {DatasetDetail(settings, req, all_data)} :
        LET composed == \E i \in 1..Len(r.calls) : r.calls[i] = "composed_query"
        IN  /\ composed \/ all_data = <<>>
            /\ request' = req
            /\ response' = r.response
            /\ calls' = r.calls
            /\ audit_log' = r.audit_log
            /\ paginator' = r.paginator
            /\ row_source' = IF composed THEN all_data ELSE <<>>
            /\ csv_data' = r.data
            /\ csv_fields' = r.fields
            /\ csv_pc' = IF r.response.kind = "stream" THEN "loop" ELSE "none"
    /\ phase' = "responded"
    /\ csv_pos' = 0
    /\ header' = NoHeader
    /\ lines' = <<>>
    /\ UNCHANGED settings

\* The response has been delivered (or the client went away); the worker
\* is free for the next request.
Finish ==
    /\ phase = "responded"
    /\ phase' = "idle"
    /\ request' = NoRequest
    /\ response' = NoResponse
    /\ calls' = <<>>
    /\ audit_log' = <<>>
    /\ paginator' = NoPaginator
    /\ row_source' = <<>>
    /\ csv_data' = <<>>
    /\ csv_fields' = <<>>
    /\ csv_pos' = 0
    /\ csv_pc' = "none"
    /\ header' = NoHeader
    /\ lines' = <<>>
    /\ UNCHANGED settings

Next == dataset_detail \/ CsvNextRow \/ CsvYieldRow \/ Finish

Spec == Init /\ [][Next]_vars

(***************************************************************************)
(* queryset_to_csv on its own: any field list, any row source              *)
(***************************************************************************)
FieldNames == {"city", "document", "internal_id", "search_data"}

FieldLists ==
    {fs \in SeqsUpTo([name : FieldNames, show_on_frontend : BOOLEAN, obfuscate : BOOLEAN],
                     MaxFields) :
        \A i, j \in 1..Len(fs) : i # j => fs[i].name # fs[j].name}

InitCsv ==
    /\ settings \in {s \in Settings : s.ROWS_PER_PAGE = 50 /\ s.CSV_EXPORT_MAX_ROWS = MaxCeiling}
    /\ phase = "responded"
    /\ request = NoRequest
    /\ response = [NoResponse EXCEPT !.kind = "stream", !.status = 200]
    /\ calls = <<>>
    /\ audit_log = <<>>
    /\ paginator = NoPaginator
    /\ row_source = <<>>
    /\ csv_data \in SeqsUpTo(Rows, MaxCsvRows)
    /\ csv_fields \in FieldLists
    /\ csv_pos = 0
    /\ csv_pc = "loop"
    /\ header = NoHeader
    /\ lines = <<>>

NextCsv == CsvNextRow \/ CsvYieldRow

SpecCsv == InitCsv /\ [][NextCsv]_vars

(***************************************************************************)
(* Vocabulary of the properties                                            *)
(***************************************************************************)
Called(fn) == \E i \in 1..Len(calls) : calls[i] = fn

Responded == phase = "responded"

\* the request carries exactly format=csv
WantsCsv == "format" \in DOMAIN request.GET /\ request.GET["format"] = <<Csv>>

\* the request got as far as `if download_csv:` with download_csv true
AtExportDecision == Responded /\ WantsCsv /\ Called("composed_query")

\* the filter and search parameters left after page, items, format are popped
FilterParams == Without(request.GET, {"page", "items", "format"})

NoFilterNoSearch ==
    /\ DOMAIN parse_querystring(FilterParams).query = {}
    /\ parse_querystring(FilterParams).search_query = <<>>

HeaderUserAgent ==
    IF "User-Agent" \in DOMAIN request.headers THEN request.headers["User-Agent"] ELSE <<>>

MatchesBlocklist ==
    \E i \in 1..Len(settings.BLOCKED_AGENTS) :
        Contains(lower(settings.BLOCKED_AGENTS[i]), lower(HeaderUserAgent))

BadUserAgent == HeaderUserAgent = <<>> \/ MatchesBlocklist

Is400Page == response.kind = "render" /\ response.template = "4xx.html" /\ response.status = 400

Is404Page(message) ==
    /\ response.kind = "render"
    /\ response.template = "404.html"
    /\ response.status = 404
    /\ response.message = message

NoCsvStream == response.kind # "stream" /\ csv_pc = "none" /\ ~Called("queryset_to_csv")

(***************************************************************************)
(* C1: a request that reaches the export decision with format=csv and with *)
(* both the parsed filter and the parsed search expression empty gets the  *)
(* 4xx page with status 400, no CSV stream is started, and the row count   *)
(* is never asked for, whatever the row count is.                          *)
(***************************************************************************)
C1_NoFilterExportRejected ==
    (AtExportDecision /\ NoFilterNoSearch) =>
        /\ Is400Page
        /\ NoCsvStream
        /\ ~Called("count")

\* an unfiltered export of an over-full table by an accepted agent, refused
C1_Witness ==
    /\ AtExportDecision
    /\ NoFilterNoSearch
    /\ ~BadUserAgent
    /\ Len(row_source) = settings.CSV_EXPORT_MAX_ROWS + 1
    /\ Is400Page

(***************************************************************************)
(* C2: a CSV export with a filter or search expression and an accepted     *)
(* user agent is answered 400 'Max rows exceeded.' when the row source     *)
(* counts CSV_EXPORT_MAX_ROWS + 1 rows or more, and with a streamed CSV    *)
(* over that row source when it counts CSV_EXPORT_MAX_ROWS rows or fewer.  *)
(***************************************************************************)
C2_CeilingDecidesExport ==
    (AtExportDecision /\ ~NoFilterNoSearch /\ ~BadUserAgent) =>
        IF Len(row_source) >= settings.CSV_EXPORT_MAX_ROWS + 1
        THEN /\ Is400Page
             /\ response.message = "Max rows exceeded."
             /\ NoCsvStream
        ELSE /\ response.kind = "stream"
             /\ csv_pc # "none"
             /\ csv_data = row_source

\* exactly at a non-zero ceiling: streamed
C2_Witness ==
    /\ AtExportDecision
    /\ ~NoFilterNoSearch
    /\ ~BadUserAgent
    /\ settings.CSV_EXPORT_MAX_ROWS > 0
    /\ Len(row_source) = settings.CSV_EXPORT_MAX_ROWS
    /\ response.kind = "stream"

(***************************************************************************)
(* C3 as stated: every request with format=csv whose User-Agent is absent, *)
(* empty or matches BLOCKED_AGENTS (case-insensitive substring) is         *)
(* answered with status 400 and never with a CSV stream.                   *)
(***************************************************************************)
C3_AsStated ==
    (Responded /\ WantsCsv /\ BadUserAgent) =>
        /\ response.status = 400
        /\ NoCsvStream

(***************************************************************************)
(* C3 amended: a request with format=csv and such a User-Agent is never    *)
(* answered with a CSV stream, and is answered with the 4xx page, status   *)
(* 400, whenever it reaches the export decision, whatever its filters and  *)
(* the row count.                                                          *)
(***************************************************************************)
C3_BadAgentRejected ==
    /\ (Responded /\ WantsCsv /\ BadUserAgent) => NoCsvStream
    /\ (AtExportDecision /\ BadUserAgent) => Is400Page

\* a mixed-case blocked agent, with a filter and a row count under the ceiling
C3_Witness ==
    /\ AtExportDecision
    /\ HeaderUserAgent # <<>>
    /\ MatchesBlocklist
    /\ ~\E i \in 1..Len(settings.BLOCKED_AGENTS) :
            Contains(settings.BLOCKED_AGENTS[i], HeaderUserAgent)
    /\ ~NoFilterNoSearch
    /\ Len(row_source) <= settings.CSV_EXPORT_MAX_ROWS
    /\ Is400Page

(***************************************************************************)
(* Vocabulary of the CSV properties                                        *)
(***************************************************************************)
Exposed(field) == field.show_on_frontend /\ field.name # "search_data"

\* the fields of the generator's field list that may be shown, in list order
ExposedFields == SelectSeq(csv_fields, Exposed)

ExposedNames == [j \in 1..Len(ExposedFields) |-> ExposedFields[j].name]

\* the data row behind the i-th yielded line: the number of row lines up to i
RowOfLine(i) == csv_data[Cardinality({k \in 1..i : lines[k].kind = "row"})]

HeaderLines == {i \in 1..Len(lines) : lines[i].kind = "header"}

(***************************************************************************)
(* C4: every line queryset_to_csv yields, header or data row, has columns  *)
(* only for the fields with show_on_frontend true and a name other than    *)
(* 'search_data'; the cell of a field flagged obfuscate is                 *)
(* obfuscate(raw value) and not the raw value; the cell of any other       *)
(* visible field is the row's raw attribute.                               *)
(***************************************************************************)
C4_OnlyExposedColumnsMasked ==
    \A i \in 1..Len(lines) :
        /\ Len(lines[i].cells) = Len(ExposedFields)
        /\ lines[i].kind = "header" =>
               /\ \A j \in 1..Len(lines[i].cells) :
                      /\ lines[i].cells[j] # "search_data"
                      /\ \E k \in 1..Len(csv_fields) :
                             /\ csv_fields[k].name = lines[i].cells[j]
                             /\ csv_fields[k].show_on_frontend
        /\ lines[i].kind = "row" =>
               \A j \in 1..Len(ExposedFields) :
                   LET raw == RowOfLine(i)[ExposedFields[j].name]
                   IN  IF ExposedFields[j].obfuscate
                       THEN /\ lines[i].cells[j] = obfuscate(raw)
                            /\ lines[i].cells[j] # raw
                       ELSE lines[i].cells[j] = raw

\* a data row was yielded for a field list with the search index marked as
\* shown, an obfuscated field and a plain one
C4_Witness ==
    /\ \E i \in 1..Len(lines) : lines[i].kind = "row"
    /\ \E k \in 1..Len(csv_fields) :
           csv_fields[k].name = "search_data" /\ csv_fields[k].show_on_frontend
    /\ \E j \in 1..Len(ExposedFields) : ExposedFields[j].obfuscate
    /\ \E j \in 1..Len(ExposedFields) : ~ExposedFields[j].obfuscate

(***************************************************************************)
(* C5 as stated: the lines of every finished CSV export contain the header *)
(* row exactly once, as the first line.                                    *)
(***************************************************************************)
C5_AsStated ==
    csv_pc = "done" =>
        /\ Cardinality(HeaderLines) = 1
        /\ lines[1].kind = "header"

(***************************************************************************)
(* C5 amended: over a row source with at least one row, the lines yielded  *)
(* contain the header exactly once, as the first line and before every     *)
(* data row; its columns are the visible fields in field-list order and    *)
(* every data row lists its values in that column order, one line per row  *)
(* in iteration order.  Over an empty row source no line is yielded, not   *)
(* even the header.                                                        *)
(***************************************************************************)
C5_HeaderOnceFirst ==
    /\ Cardinality(HeaderLines) <= 1
    /\ lines # <<>> =>
           /\ lines[1] = Line("header", ExposedNames)
           /\ header = [is_none |-> FALSE, names |-> ExposedNames]
    /\ \A i \in 2..Len(lines) :
           /\ lines[i].kind = "row"
           /\ Len(lines[i].cells) = Len(ExposedNames)
           /\ \A j \in 1..Len(ExposedNames) :
                  lines[i].cells[j] \in
                      { csv_data[i - 1][ExposedNames[j]],
                        obfuscate(csv_data[i - 1][ExposedNames[j]]) }
    /\ csv_pc = "done" =>
           Len(lines) = IF csv_data = <<>> THEN 0 ELSE Len(csv_data) + 1

\* a finished export of two different rows with two visible columns
C5_Witness ==
    /\ csv_pc = "done"
    /\ Len(csv_data) >= 2
    /\ csv_data[1] # csv_data[2]
    /\ Len(ExposedNames) >= 2
    /\ Len(lines) = Len(csv_data) + 1

(***************************************************************************)
(* Vocabulary of the routing properties                                    *)
(***************************************************************************)
DatasetExists == request.slug \in DOMAIN Datasets

TableNamed == DatasetExists /\ request.tablename \in DOMAIN Datasets[request.slug].tables

HiddenTableNamed == TableNamed /\ Datasets[request.slug].tables[request.tablename].hidden

\* the steps after table resolution: query translation, row source, count,
\* pagination, export
PastResolution ==
    \/ Called("GET.copy") \/ Called("parse_querystring") \/ Called("composed_query")
    \/ Called("count") \/ Called("Paginator") \/ Called("queryset_to_csv")
    \/ paginator.called \/ csv_pc # "none"

(***************************************************************************)
(* C6: for an existing dataset and a table name that resolves to a hidden  *)
(* table, a caller who is not a superuser gets the 404 page 'Table does    *)
(* not exist' and none of the query, pagination or export steps run; a     *)
(* superuser is not answered 'Table does not exist' and the request goes   *)
(* on into the query pipeline.                                             *)
(***************************************************************************)
C6_HiddenTableVisibility ==
    (Responded /\ HiddenTableNamed) =>
        IF request.is_superuser
        THEN /\ response.message # "Table does not exist"
             /\ Called("GET.copy")
        ELSE /\ Is404Page("Table does not exist")
             /\ ~PastResolution

\* a superuser is served a page of the hidden table
C6_Witness ==
    /\ Responded
    /\ HiddenTableNamed
    /\ request.is_superuser
    /\ response.template = "core/dataset-detail.html"
    /\ paginator.called

(***************************************************************************)
(* C7 as stated: a request with no table segment is always answered with a *)
(* redirect, whatever the slug.                                            *)
(***************************************************************************)
C7_AsStated ==
    (Responded /\ request.tablename = "") => response.kind = "redirect"

(***************************************************************************)
(* C7 amended: a request with no table segment for the slug of an existing *)
(* dataset is always answered with a redirect to                           *)
(* /dataset/<slug>/<default-table-name> and never renders a page, whatever *)
(* its query parameters; for an unknown slug it is answered with the 404   *)
(* page 'Dataset does not exist'.                                          *)
(***************************************************************************)
C7_NoTableRedirects ==
    (Responded /\ request.tablename = "") =>
        IF DatasetExists
        THEN /\ response.kind = "redirect"
             /\ response.template = ""
             /\ response.location =
                    <<"dataset", request.slug, Datasets[request.slug].default_table>>
             /\ ~PastResolution
        ELSE Is404Page("Dataset does not exist")

\* a redirect for a request that asked for a CSV of a filtered table
C7_Witness ==
    /\ Responded
    /\ request.tablename = ""
    /\ request.slug = "socios"
    /\ WantsCsv
    /\ "city" \in DOMAIN request.GET
    /\ response.location = <<"dataset", "socios", "empresa">>

(***************************************************************************)
(* C8: when the items parameter parses as an integer n, the page size      *)
(* handed to the paginator is min(n, 1000): exactly 1000 for n > 1000; and *)
(* no request hands the paginator a page size above 1000.                  *)
(***************************************************************************)
ItemsParam == IF "items" \in DOMAIN request.GET THEN Head(request.GET["items"]) ELSE <<>>

C8_PageSizeClamped ==
    /\ paginator.per_page <= 1000
    /\ (paginator.called /\ IsIntLiteral(ItemsParam)) =>
           /\ IntValue(ItemsParam) <= 1000 => paginator.per_page = IntValue(ItemsParam)
           /\ IntValue(ItemsParam) > 1000 => paginator.per_page = 1000

\* items=1001 reached the paginator as 1000
C8_Witness ==
    /\ paginator.called
    /\ IsIntLiteral(ItemsParam)
    /\ IntValue(ItemsParam) = 1001
    /\ paginator.per_page = 1000

(***************************************************************************)
(* Vocabulary of the parameter properties                                  *)
(***************************************************************************)
PageParam == IF "page" \in DOMAIN request.GET THEN Head(request.GET["page"]) ELSE <<>>

\* the caller may see the table the request names
TableResolves == TableNamed /\ (request.is_superuser \/ ~HiddenTableNamed)

\* a value that is not empty and that int() refuses
NotAnInteger(value) == value # <<>> /\ ~IsIntLiteral(value)

\* the same, for a value that is not empty once its surrounding whitespace
\* is stripped
NotAnIntegerStripped(value) == strip(value) # <<>> /\ ~IsIntLiteral(value)

NoQuerySteps ==
    /\ ~Called("parse_querystring")
    /\ ~Called("composed_query")
    /\ ~Called("count")
    /\ ~Called("Paginator")
    /\ ~Called("queryset_to_csv")
    /\ ~paginator.called
    /\ csv_pc = "none"
    /\ row_source = <<>>

(***************************************************************************)
(* C9 as stated: a request to a resolvable table whose page (or, page      *)
(* being fine, items) parameter is a non-empty value that int() refuses    *)
(* gets the 404 page 'Invalid page number.' ('Invalid items per page.')    *)
(* and none of the query, pagination or export steps run.                  *)
(***************************************************************************)
C9_AsStated ==
    (Responded /\ TableResolves) =>
        /\ NotAnInteger(PageParam) =>
               Is404Page("Invalid page number.") /\ NoQuerySteps
        /\ (~NotAnInteger(PageParam) /\ NotAnInteger(ItemsParam)) =>
               Is404Page("Invalid items per page.") /\ NoQuerySteps

(***************************************************************************)
(* C9 amended: a request to a resolvable table whose page parameter, once  *)
(* its surrounding whitespace is stripped, is non-empty and does not parse *)
(* as an integer gets the 404 page 'Invalid page number.'; otherwise, if   *)
(* its items parameter is such a value, it gets the 404 page 'Invalid      *)
(* items per page.'.  In both cases the response is a rendered page and    *)
(* the query translator, row source, paginator and CSV export are not      *)
(* invoked, also with format=csv.  A parameter of whitespace only is       *)
(* replaced by its default.                                                *)
(***************************************************************************)
C9_InvalidNumbersAre404 ==
    (Responded /\ TableResolves) =>
        /\ NotAnIntegerStripped(PageParam) =>
               Is404Page("Invalid page number.") /\ NoQuerySteps
        /\ (~NotAnIntegerStripped(PageParam) /\ NotAnIntegerStripped(ItemsParam)) =>
               Is404Page("Invalid items per page.") /\ NoQuerySteps
        /\ (PageParam # <<>> /\ strip(PageParam) = <<>>
            /\ ~NotAnIntegerStripped(ItemsParam)) =>
               Called("parse_querystring")
        /\ (paginator.called /\ PageParam # <<>> /\ strip(PageParam) = <<>>) =>
               paginator.number = 1

\* both parameters are malformed on a CSV request: the page message wins
C9_Witness ==
    /\ Responded
    /\ TableResolves
    /\ WantsCsv
    /\ NotAnIntegerStripped(PageParam)
    /\ NotAnIntegerStripped(ItemsParam)
    /\ Is404Page("Invalid page number.")

(***************************************************************************)
(* C10: when table resolution fails for the caller, log_blocked_request is *)
(* called exactly once, with 404, if the named table exists but is hidden, *)
(* and not at all if no table has that name; either way the response is    *)
(* the 404 page 'Table does not exist'.  No other path of dataset_detail   *)
(* writes to the audit log.                                                *)
(***************************************************************************)
ResolutionFails ==
    /\ Responded
    /\ DatasetExists
    /\ request.tablename # ""
    /\ ~TableResolves

LogCalls == {i \in 1..Len(calls) : calls[i] = "log_blocked_request"}

C10_AuditOnlyHidden404 ==
    /\ ResolutionFails =>
           /\ Is404Page("Table does not exist")
           /\ HiddenTableNamed => (audit_log = <<404>> /\ Cardinality(LogCalls) = 1)
           /\ ~TableNamed => (audit_log = <<>> /\ LogCalls = {})
    /\ ~ResolutionFails => (audit_log = <<>> /\ LogCalls = {})

\* a superuser asks for a table that does not exist: nothing is logged
C10_Witness ==
    /\ ResolutionFails
    /\ request.is_superuser
    /\ ~TableNamed
    /\ audit_log = <<>>
    /\ Is404Page("Table does not exist")

====
